---------------------------- MODULE Spec2Model ----------------------------
(***************************************************************************)
(* A model of the enhanced GraphRAG workflow of src/workflow.py: the       *)
(* exemplar retrieval, the query generation pipeline with its lru cache,   *)
(* the validate/repair loop, the rule-based post-processor, the execution  *)
(* of the final query and the answer step.                                 *)
(*                                                                         *)
(* A query string is a sequence of lexemes.  Each lexeme stands for a      *)
(* maximal piece of query text of one kind:                                *)
(*   "N"  a property access matching \w+\.name         (i.name)            *)
(*   "P"  another property access, in lower case       (p.category)        *)
(*   "C"  the keyword CONTAINS, "c" the same keyword in lower case         *)
(*   "E"  the operator =                                                   *)
(*   "S"  a run of white space                                             *)
(*   "Q"  a single quote                                                   *)
(*   "U"  a word with upper case letters, "u" the same word lowercased     *)
(*   "L"  the text lower(       "R"  the text )                            *)
(***************************************************************************)
EXTENDS Integers, Sequences, FiniteSets, TLC

\* ------------------------------------------------------------------ bounds
MaxLen == 7          \* longest lexeme sequence enumerated for the post-processor
MaxRetries == 3      \* max_retries ranges over 0..MaxRetries
MaxRequests == 2     \* questions answered by one run_graph_rag call
MaxCorpus == 3       \* largest exemplar corpus
MaxK == 3            \* largest k given to GraphRAG(k)
MaxScore == 2        \* similarity scores range over 0..MaxScore
MaxItems == 2        \* longest dataset given to evaluate_system

\* ------------------------------------------------------- program constants
DefaultK == 2            \* GraphRAG.__init__(self, k=2)

VARIABLES
    \* --- the post-processor applied to an arbitrary query string
    ppPc, ppIn, ppOut1, ppOut2,
    \* --- GraphRAG: the exemplar index
    k,              \* self.k
    ncorpus,        \* len(self.trainset); exemplar j is its corpus position j
    scores,         \* similarity of the question to each exemplar
    retrieved,      \* the examples _get_retrieved_examples returned
    rPc,            \* position of a lone retrieval
    \* --- run_graph_rag / GraphRAG.forward
    pc,             \* position of the request being answered
    nreq,           \* requests started so far
    question,       \* the question of the current request
    cache,          \* lru_cache of get_cypher_query: question -> query
    schema_as_str,  \* the schema handed to text2cypher
    prune_failed,   \* the prune call of this request raised
    max_retries,    \* parameter of _validate_and_repair_query
    query,          \* the current candidate
    initial_query,  \* the candidate the loop was called with
    i,              \* the loop index
    explains,       \* EXPLAIN calls of this request
    repairs,        \* repair requests of this request
    explain_failed, \* some EXPLAIN of this request raised
    last_error,     \* the error the last failed EXPLAIN raised
    last_repair,    \* the output of the last repair request
    report,         \* what the loop printed when it returned
    final_query,    \* what the loop returned
    exec_error,     \* what conn.execute(final_query) raised
    results,        \* the flattened rows, or None
    response,       \* what forward returned
    raised,         \* the exception that left forward
    \* --- what happened in the current request
    stages,         \* the stages completed, in the order they completed
    executions,     \* calls of conn.execute(final_query)
    executed,       \* the text given to conn.execute
    query_checked,  \* the current candidate went through EXPLAIN
    checked_query,  \* the text given to the last EXPLAIN
    repair_req,     \* the last repair request sent to text2cypher
    repeat_round,   \* the first round that repeated a failure, 0 when none did
    result_rows,    \* the rows conn.execute(final_query) returned
    pp_calls,       \* calls of _post_process_query
    pp_arg,         \* the text given to the last _post_process_query
    \* --- the embeddings
    trainset_embeddings,  \* self.trainset_embeddings
    corpus_encodes,       \* exemplar questions embedded so far
    question_encodes,     \* questions embedded so far
    \* --- evaluate_system
    evPc,                 \* position of an evaluation
    dataset_len,          \* len(dataset)
    items_done,           \* items of the dataset the for loop has processed
    syntactic_correct,
    functional_correct,
    prev_syntactic,       \* syntactic_correct before the last item
    prev_functional,      \* functional_correct before the last item
    item_outcome,         \* how the body of the loop ended for the last item
    generated_rows,       \* generated_result_set.get_all() of the last item
    gold_result,          \* item["gold_result"] of the last item
    metrics               \* what evaluate_system returned

ppVars == <<ppPc, ppIn, ppOut1, ppOut2>>
exVars == <<k, ncorpus, scores, retrieved, rPc>>
rqVars == <<pc, nreq, question, cache, schema_as_str, prune_failed, max_retries,
            query, initial_query, i, explains, repairs, explain_failed,
            last_error, last_repair, report, final_query, exec_error, results,
            response, raised, stages, executions, executed, query_checked,
            checked_query, repair_req, repeat_round, result_rows, pp_calls,
            pp_arg>>
ixVars == <<trainset_embeddings, corpus_encodes, question_encodes>>
evVars == <<evPc, dataset_len, items_done, syntactic_correct, functional_correct,
            prev_syntactic, prev_functional, item_outcome, generated_rows,
            gold_result, metrics>>
vars == <<ppVars, exVars, rqVars, ixVars, evVars>>

\* ------------------------------------------------- query text as lexemes
SmallTokens == {"N", "C", "S", "Q", "U"}

\* Lexemes that begin (end) with a word character: two of them never stand
\* side by side in a string, they would be one word.
LeftWord(t) == t \in {"N", "P", "C", "c", "U", "u", "L"}
RightWord(t) == t \in {"N", "P", "C", "c", "U", "u"}

\* i.nameCONTAINS is the one junction of two words the pattern looks into.
WellLexed(q) ==
    \A j \in 1..(Len(q) - 1) :
        /\ ~(q[j] = "S" /\ q[j + 1] = "S")
        /\ (RightWord(q[j]) /\ LeftWord(q[j + 1]))
              => (q[j] = "N" /\ q[j + 1] \in {"C", "c"})

\* Sample queries, as the generator writes them.
\*   MATCH ... RETURN p.category
QPlain == <<"U", "S", "P">>
\*   i.name CONTAINS 'Cambridge'
QRaw == <<"N", "S", "C", "S", "Q", "U", "Q">>
\*   lower(i.name) CONTAINS 'cambridge'
QNorm == <<"L", "N", "R", "S", "C", "S", "Q", "u", "Q">>
\*   i.name = 'Cambridge'
QEq == <<"N", "S", "E", "S", "Q", "U", "Q">>
\*   a.name CONTAINS 'b.name CONTAINS' AND p.category = 'Y'
QNested == <<"N", "S", "C", "S", "Q", "N", "S", "C", "Q", "S", "U", "S",
             "P", "S", "E", "S", "Q", "U", "Q">>
\*   p.category = 'b.name CONTAINS' AND p.x = 'Y'
QQuoted == <<"P", "S", "E", "S", "Q", "N", "S", "C", "Q", "S", "U", "S",
             "P", "S", "E", "S", "Q", "U", "Q">>

SampleQueries == {QPlain, QRaw, QNorm, QEq, QNested, QQuoted}

SmallQueries ==
    {q \in UNION {[1..n -> SmallTokens] : n \in 0..MaxLen} : WellLexed(q)}

\* --------------------------------------------- GraphRAG._post_process_query

\* flags=re.IGNORECASE
IgnoreCase == TRUE

\* the literal CONTAINS of the pattern
IsContains(t) == t = "C" \/ (IgnoreCase /\ t = "c")

\* str.lower() on one lexeme, and on a piece of text
Lower(t) == IF t = "U" THEN "u" ELSE IF t = "C" THEN "c" ELSE t
LowerSeq(s) == [j \in 1..Len(s) |-> Lower(s[j])]

\* \s* from position p: the first position that is not white space
RECURSIVE SkipSpace(_, _)
SkipSpace(q, p) ==
    IF p <= Len(q) /\ q[p] = "S" THEN SkipSpace(q, p + 1) ELSE p

\* [^']* from position p: the position of the next quote, 0 when there is none
RECURSIVE NextQuote(_, _)
NextQuote(q, p) ==
    IF p > Len(q) THEN 0
    ELSE IF q[p] = "Q" THEN p
    ELSE NextQuote(q, p + 1)

\* The pattern (\w+\.name\s*CONTAINS)\s*'([^']*)' tried at position p.
\* kw is the position of CONTAINS (the end of group 1), open and close the
\* positions of the two quotes (group 2 lies between them).
MatchAt(q, p) ==
    LET kw == SkipSpace(q, p + 1)
        open == SkipSpace(q, kw + 1)
        close == NextQuote(q, open + 1)
        ok == /\ p <= Len(q)
              /\ q[p] = "N"
              /\ kw <= Len(q)
              /\ IsContains(q[kw])
              /\ open <= Len(q)
              /\ q[open] = "Q"
              /\ close # 0
    IN  [ok |-> ok, kw |-> kw, open |-> open, close |-> close]

\* f"lower({m.group(1)}) CONTAINS '{m.group(2).lower()}'"
Replacement(g1, g2) ==
    <<"L">> \o g1 \o <<"R", "S", "C", "S", "Q">> \o LowerSeq(g2) \o <<"Q">>

\* re.sub: leftmost matches, not overlapping, scanning on after each match
RECURSIVE Sub(_, _)
Sub(q, p) ==
    IF p > Len(q) THEN <<>>
    ELSE LET m == MatchAt(q, p) IN
         IF m.ok
         THEN Replacement(SubSeq(q, p, m.kw), SubSeq(q, m.open + 1, m.close - 1))
                  \o Sub(q, m.close + 1)
         ELSE <<q[p]>> \o Sub(q, p + 1)

PostProcessQuery(q) == Sub(q, 1)

\* ------------------------------------- GraphRAG._get_retrieved_examples

Min(a, b) == IF a < b THEN a ELSE b

\* util.semantic_search(question_embedding, corpus_embeddings, top_k): for the
\* one query, min(top_k, corpus size) hits with pairwise different corpus ids,
\* the highest scores first; which of several equal scores comes first is
\* not fixed.  A hit is its corpus_id.
SemanticSearch(sc, n, top_k) ==
    LET m == Min(top_k, n) IN
    {h \in [1..m -> 1..n] :
        /\ \A a, b \in 1..m : a # b => h[a] # h[b]
        /\ \A a, b \in 1..m : a < b => sc[h[a]] >= sc[h[b]]
        /\ \A j \in 1..n : (\A a \in 1..m : h[a] # j)
                               => \A a \in 1..m : sc[j] <= sc[h[a]]}

\* faulty variant: every hit is looked up with the corpus_id of the first hit
ExampleOfFirstHit(h, a) == h[1]

\* self.trainset[hit['corpus_id']] for the a-th hit
ExampleOfHit(h, a) == h[a]

\* retrieved_data = [self.trainset[hit['corpus_id']] for hit in hits[0]]
GetRetrievedExamples(sc, n, kk) ==
    {[a \in 1..Len(h) |-> ExampleOfHit(h, a)] : h \in SemanticSearch(sc, n, kk)}

\* the similarities an embedding of a question can have to n exemplars
ScoreFns(n) == [1..n -> 0..MaxScore]

\* --------------------------------------------------- the request pipeline
Questions == {"q1", "q2"}
NoQuery == <<>>
Queries == {QPlain, QRaw, QNorm}     \* what text2cypher may answer
Errors == {"e1", "e2"}               \* messages of a failed EXPLAIN
RowSets == {<<>>, <<<<1>>>>, <<<<1, 2>>, <<3>>>>}
AnswerTexts == {"text", "insufficient"}

NoResults == [none |-> TRUE, items |-> <<>>]
NoResponse == [returned |-> FALSE, keys |-> {}, query |-> NoQuery, answer |-> ""]
\* return {}
EmptyResponse == [returned |-> TRUE, keys |-> {}, query |-> NoQuery, answer |-> ""]

\* faulty variant: [row[0] for row in result]
FlattenFirstColumn(rows) == [j \in 1..Len(rows) |-> rows[j][1]]

\* [item for row in result for item in row]
RECURSIVE Flatten(_)
Flatten(rows) ==
    IF rows = <<>> THEN <<>> ELSE Head(rows) \o Flatten(Tail(rows))

\* faulty variant: the loop gives up once a failure repeats
LoopContinuesMemoized(idx, max) == idx < max /\ repeat_round = 0

\* faulty variant: a loop that checks at least once
LoopContinuesAtLeastOnce(idx, max) == idx < max \/ idx = 0

\* faulty variant: for i in range(max_retries + 1)
LoopContinuesOffByOne(idx, max) == idx <= max

\* for i in range(max_retries): is there another round
LoopContinues(idx, max) == idx < max

\* faulty variant: return query
ValidReturnRaw(q) == q

\* return self._post_process_query(query), after a passed EXPLAIN
ValidReturn(q) == PostProcessQuery(q)

\* faulty variant: return query
ExhaustedReturnRaw(q) == q

\* return self._post_process_query(query), after the loop ran out
ExhaustedReturn(q) == PostProcessQuery(q)

\* faulty variant: the answer of the repair request is dropped
RepairedCandidateKeepsOld(old, new) == old

\* query = response.query.query
RepairedCandidate(old, new) == new

\* faulty variant: the lookup ignores the question
CacheKeyConstant(qn) == "q1"

\* @lru_cache keys a call by its arguments; input_schema is the same string
\* in every call of one run, so the question is the key
CacheKey(qn) == qn

\* faulty variant: run_query executes the generated query at once
AfterGetCypherQueryExecute == "execute"

\* run_query: after get_cypher_query returned, the loop is called
AfterGetCypherQuery == "loop"

\* faulty variant: running out of retries raises
OnExhaustedFatal == "crashed"

\* after the loop ran out the function returns: run_query goes on to execute
OnExhausted == "execute"

\* faulty variant: an error of the repair request is swallowed
OnRepairErrorSwallowed == "execute"

\* nothing catches what self.text2cypher raises inside the except branch
OnRepairError == "crashed"

NoRequest ==
    [failed_query |-> NoQuery, error |-> "none", input_schema |-> "none",
     original_question |-> FALSE]

\* faulty variant: the repair request is built from the first candidate
RepairRequestInitial(q, e) ==
    [failed_query |-> initial_query, error |-> e, input_schema |-> "",
     original_question |-> FALSE]

\* question=f"The previous query failed. Fix this query: {query}. Error: {e}",
\* input_schema=""
RepairRequest(q, e) ==
    [failed_query |-> q, error |-> e, input_schema |-> "",
     original_question |-> FALSE]

\* faulty variant: the retrieval embeds twice
EncodeCallsTwice(n) == n + 2

\* self.retriever_model.encode(question, ...): one more embedding
EncodeCalls(n) == n + 1

\* self.retriever_model.encode(exemplar_questions, ...): exemplar j -> its
\* embedding, written j
EncodeCorpus(n) == [j \in 1..n |-> j]

\* GraphRAG.__init__: the exemplar questions are embedded
IxInit ==
    /\ trainset_embeddings = EncodeCorpus(ncorpus)
    /\ corpus_encodes = ncorpus
    /\ question_encodes = 0

\* except RuntimeError as e: which errors of conn.execute are absorbed
ExecErrors == {"RuntimeError", "Exception"}
Absorbed(err) == err = "RuntimeError"

\* -------------------------------------------------------- evaluate_system
\* result values are "a", "b" and "dict", a node, which Kuzu returns as a dict:
\* can the value be a member of a Python set
Hashable(v) == v # "dict"
EvalRowSets ==
    {<<>>, <<<<"a">>>>, <<<<"a">>, <<"b">>>>, <<<<"b">>, <<"a">>>>,
     <<<<"a">>, <<"a">>>>, <<<<"a", "b">>>>, <<<<"dict">>>>}
GoldResults == {<<>>, <<"a">>, <<"a", "b">>, <<"b">>}
NoMetrics == [syntactic_accuracy |-> <<0, 0>>, functional_accuracy |-> <<0, 0>>]

\* generated_result = [row[0] for row in generated_result_set.get_all()]
GeneratedResult(rows) == [j \in 1..Len(rows) |-> rows[j][1]]

\* set(generated_result)
SetOf(seq) == {seq[j] : j \in 1..Len(seq)}
\* set(...) raises TypeError on a value that is not hashable
SetRaises(seq) == \E j \in 1..Len(seq) : ~Hashable(seq[j])

\* faulty variant: generated_result == gold_result
FunctionalMatchSequence(generated, gold) == generated = gold

\* set(generated_result) == set(gold_result)
FunctionalMatch(generated, gold) == SetOf(generated) = SetOf(gold)

\* (count / total) * 100 if total > 0 else 0, as the fraction count * 100 / total
Accuracy(count, total) == IF total > 0 THEN <<count * 100, total>> ELSE <<0, 1>>

EvIdle ==
    /\ evPc = "off"
    /\ dataset_len = 0
    /\ items_done = 0
    /\ syntactic_correct = 0
    /\ functional_correct = 0
    /\ prev_syntactic = 0
    /\ prev_functional = 0
    /\ item_outcome = "none"
    /\ generated_rows = <<>>
    /\ gold_result = <<>>
    /\ metrics = NoMetrics

\* rag = GraphRAG(): the state run_graph_rag starts from
RqIdle ==
    /\ pc = "idle"
    /\ nreq = 0
    /\ question = ""
    /\ cache = [qn \in Questions |-> NoQuery]
    /\ schema_as_str = "none"
    /\ prune_failed = FALSE
    /\ query = NoQuery
    /\ initial_query = NoQuery
    /\ i = 0
    /\ explains = 0
    /\ repairs = 0
    /\ explain_failed = FALSE
    /\ last_error = "none"
    /\ last_repair = NoQuery
    /\ report = "none"
    /\ final_query = NoQuery
    /\ exec_error = "none"
    /\ results = NoResults
    /\ response = NoResponse
    /\ raised = "none"
    /\ stages = <<>>
    /\ executions = 0
    /\ executed = NoQuery
    /\ query_checked = FALSE
    /\ checked_query = NoQuery
    /\ repair_req = NoRequest
    /\ repeat_round = 0
    /\ result_rows = <<>>
    /\ pp_calls = 0
    /\ pp_arg = NoQuery

PPIdle ==
    /\ ppPc = "off"
    /\ ppIn = <<>>
    /\ ppOut1 = <<>>
    /\ ppOut2 = <<>>

Init ==
    /\ PPIdle
    /\ RqIdle
    /\ max_retries \in 0..MaxRetries
    /\ k = DefaultK
    /\ ncorpus = MaxCorpus
    /\ scores = <<>>
    /\ retrieved = <<>>
    /\ rPc = "off"
    /\ IxInit
    /\ EvIdle

\* response = rag(db_manager=db_manager, question=question, input_schema=schema)
Forward ==
    /\ pc = "idle"
    /\ nreq < MaxRequests
    /\ \E qn \in Questions : question' = qn
    /\ nreq' = nreq + 1
    /\ pc' = "get_cypher_query"
    /\ schema_as_str' = "none"
    /\ prune_failed' = FALSE
    /\ query' = NoQuery
    /\ initial_query' = NoQuery
    /\ i' = 0
    /\ explains' = 0
    /\ repairs' = 0
    /\ explain_failed' = FALSE
    /\ last_error' = "none"
    /\ last_repair' = NoQuery
    /\ report' = "none"
    /\ final_query' = NoQuery
    /\ exec_error' = "none"
    /\ results' = NoResults
    /\ response' = NoResponse
    /\ raised' = "none"
    /\ stages' = <<>>
    /\ executions' = 0
    /\ executed' = NoQuery
    /\ query_checked' = FALSE
    /\ checked_query' = NoQuery
    /\ repair_req' = NoRequest
    /\ repeat_round' = 0
    /\ result_rows' = <<>>
    /\ pp_calls' = 0
    /\ pp_arg' = NoQuery
    /\ UNCHANGED <<evVars, ixVars,
                   cache, max_retries, ppVars, exVars>>

\* @lru_cache: the call was made before, its result is returned
CacheHit ==
    /\ pc = "get_cypher_query"
    /\ cache[CacheKey(question)] # NoQuery
    /\ query' = cache[CacheKey(question)]
    /\ initial_query' = cache[CacheKey(question)]
    /\ pc' = AfterGetCypherQuery
    /\ query_checked' = FALSE
    /\ UNCHANGED <<evVars, result_rows, pp_calls, pp_arg, repeat_round, stages, executions, executed, checked_query, repair_req, ixVars,
                   nreq, question, cache, schema_as_str, prune_failed, max_retries,
                   i, explains, repairs, explain_failed, last_error, last_repair,
                   report, final_query, exec_error, results, response, raised,
                   ppVars, exVars>>

\* Step 1: retrieved_examples = self._get_retrieved_examples(question)
Retrieve ==
    /\ pc = "get_cypher_query"
    /\ cache[CacheKey(question)] = NoQuery
    /\ \E sc \in ScoreFns(ncorpus) :
           retrieved' \in GetRetrievedExamples(sc, ncorpus, k)
    /\ pc' = "prune"
    /\ question_encodes' = EncodeCalls(question_encodes)
    /\ stages' = Append(stages, "retrieve")
    /\ UNCHANGED <<evVars, result_rows, pp_calls, pp_arg, repeat_round, executions, executed, query_checked, checked_query, repair_req, trainset_embeddings, corpus_encodes,
                   nreq, question, cache, schema_as_str, prune_failed, max_retries,
                   query, initial_query, i, explains, repairs, explain_failed,
                   last_error, last_repair, report, final_query, exec_error,
                   results, response, raised, ppVars, k, ncorpus, scores, rPc>>

\* Step 2: prune_result = self.prune(...); schema_as_str = str(...)
PruneOk ==
    /\ pc = "prune"
    /\ schema_as_str' = "pruned"
    /\ pc' = "generate"
    /\ stages' = Append(stages, "prune")
    /\ UNCHANGED <<evVars, result_rows, pp_calls, pp_arg, repeat_round, executions, executed, query_checked, checked_query, repair_req, ixVars,
                   nreq, question, cache, prune_failed, max_retries,
                   query, initial_query, i, explains, repairs, explain_failed,
                   last_error, last_repair, report, final_query, exec_error,
                   results, response, raised, ppVars, exVars>>

\* self.prune raises (the service failed, or its output is no GraphSchema):
\* nothing catches it in get_cypher_query, run_query, forward or run_graph_rag
PruneRaises ==
    /\ pc = "prune"
    /\ prune_failed' = TRUE
    /\ raised' = "prune"
    /\ pc' = "crashed"
    /\ retrieved' = <<>>
    /\ UNCHANGED <<evVars, result_rows, pp_calls, pp_arg, repeat_round, stages, executions, executed, query_checked, checked_query, repair_req, ixVars,
                   nreq, question, cache, schema_as_str, max_retries,
                   query, initial_query, i, explains, repairs, explain_failed,
                   last_error, last_repair, report, final_query, exec_error,
                   results, response, ppVars, k, ncorpus, scores, rPc>>

\* Step 3: text2cypher_result = self.text2cypher(...); return its query,
\* which lru_cache keeps; run_query hands it to the loop
GenerateOk ==
    /\ pc = "generate"
    /\ \E c \in Queries :
          /\ query' = c
          /\ initial_query' = c
          /\ cache' = [cache EXCEPT ![CacheKey(question)] = c]
    /\ retrieved' = <<>>
    /\ pc' = AfterGetCypherQuery
    /\ query_checked' = FALSE
    /\ stages' = Append(stages, "generate")
    /\ UNCHANGED <<evVars, result_rows, pp_calls, pp_arg, repeat_round, executions, executed, checked_query, repair_req, ixVars,
                   nreq, question, schema_as_str, prune_failed, max_retries,
                   i, explains, repairs, explain_failed, last_error, last_repair,
                   report, final_query, exec_error, results, response, raised,
                   ppVars, k, ncorpus, scores, rPc>>

GenerateRaises ==
    /\ pc = "generate"
    /\ raised' = "generation"
    /\ pc' = "crashed"
    /\ retrieved' = <<>>
    /\ UNCHANGED <<evVars, result_rows, pp_calls, pp_arg, repeat_round, stages, executions, executed, query_checked, checked_query, repair_req, ixVars,
                   nreq, question, cache, schema_as_str, prune_failed, max_retries,
                   query, initial_query, i, explains, repairs, explain_failed,
                   last_error, last_repair, report, final_query, exec_error,
                   results, response, ppVars, k, ncorpus, scores, rPc>>

\* db_manager.conn.execute(f"EXPLAIN {query}") passes
ExplainOk ==
    /\ pc = "loop"
    /\ LoopContinues(i, max_retries)
    /\ explains' = explains + 1
    /\ report' = "valid"
    /\ final_query' = ValidReturn(query)
    /\ pc' = "execute"
    /\ query_checked' = TRUE
    /\ checked_query' = query
    /\ stages' = stages \o <<"validate", "post_process">>
    /\ pp_calls' = pp_calls + 1
    /\ pp_arg' = query
    /\ UNCHANGED <<evVars, result_rows, repeat_round, executions, executed, repair_req, ixVars,
                   nreq, question, cache, schema_as_str, prune_failed, max_retries,
                   query, initial_query, i, repairs, explain_failed, last_error,
                   last_repair, exec_error, results, response, raised,
                   ppVars, exVars>>

\* it raises: except Exception as e
ExplainRaises ==
    /\ pc = "loop"
    /\ LoopContinues(i, max_retries)
    /\ explains' = explains + 1
    /\ explain_failed' = TRUE
    /\ \E e \in Errors :
          /\ last_error' = e
          /\ repeat_round' = IF repeat_round = 0 /\ e = last_error
                              THEN i + 1 ELSE repeat_round
    /\ pc' = "repair"
    /\ query_checked' = TRUE
    /\ checked_query' = query
    /\ UNCHANGED <<evVars, result_rows, pp_calls, pp_arg, stages, executions, executed, repair_req, ixVars,
                   nreq, question, cache, schema_as_str, prune_failed, max_retries,
                   query, initial_query, i, repairs, last_repair, report,
                   final_query, exec_error, results, response, raised,
                   ppVars, exVars>>

\* response = self.text2cypher(question=f"... {query}. Error: {e}", input_schema="")
RepairOk ==
    /\ pc = "repair"
    /\ repairs' = repairs + 1
    /\ \E c \in Queries :
          /\ query' = RepairedCandidate(query, c)
          /\ last_repair' = c
          /\ repeat_round' = IF repeat_round = 0 /\ c = query
                              THEN i + 1 ELSE repeat_round
    /\ i' = i + 1
    /\ pc' = "loop"
    /\ repair_req' = RepairRequest(query, last_error)
    /\ query_checked' = FALSE
    /\ UNCHANGED <<evVars, result_rows, pp_calls, pp_arg, stages, executions, executed, checked_query, ixVars,
                   nreq, question, cache, schema_as_str, prune_failed, max_retries,
                   initial_query, explains, explain_failed, last_error, report,
                   final_query, exec_error, results, response, raised,
                   ppVars, exVars>>

RepairRaises ==
    /\ pc = "repair"
    /\ repairs' = repairs + 1
    /\ raised' = "generation"
    /\ pc' = OnRepairError
    /\ repair_req' = RepairRequest(query, last_error)
    /\ UNCHANGED <<evVars, result_rows, pp_calls, pp_arg, repeat_round, stages, executions, executed, query_checked, checked_query, ixVars,
                   nreq, question, cache, schema_as_str, prune_failed, max_retries,
                   query, initial_query, i, explains, explain_failed, last_error,
                   last_repair, report, final_query, exec_error, results, response,
                   ppVars, exVars>>

\* the for loop ran out: print("Could not repair ..."); return
Exhausted ==
    /\ pc = "loop"
    /\ ~LoopContinues(i, max_retries)
    /\ report' = "exhausted"
    /\ final_query' = ExhaustedReturn(query)
    /\ pc' = OnExhausted
    /\ stages' = stages \o <<"validate", "post_process">>
    /\ pp_calls' = pp_calls + 1
    /\ pp_arg' = query
    /\ UNCHANGED <<evVars, result_rows, repeat_round, executions, executed, query_checked, checked_query, repair_req, ixVars,
                   nreq, question, cache, schema_as_str, prune_failed, max_retries,
                   query, initial_query, i, explains, repairs, explain_failed,
                   last_error, last_repair, exec_error, results, response, raised,
                   ppVars, exVars>>

\* result = db_manager.conn.execute(final_query); results = [...]
ExecuteOk ==
    /\ pc = "execute"
    /\ \E rows \in RowSets :
          /\ result_rows' = rows
          /\ results' = [none |-> FALSE, items |-> Flatten(rows)]
    /\ pc' = "answer"
    /\ executions' = executions + 1
    /\ executed' = final_query
    /\ stages' = Append(stages, "execute")
    /\ UNCHANGED <<evVars, pp_calls, pp_arg, repeat_round, query_checked, checked_query, repair_req, ixVars,
                   nreq, question, cache, schema_as_str, prune_failed, max_retries,
                   query, initial_query, i, explains, repairs, explain_failed,
                   last_error, last_repair, report, final_query, exec_error,
                   response, raised, ppVars, exVars>>

\* conn.execute raises
ExecuteRaises ==
    /\ pc = "execute"
    /\ \E err \in ExecErrors :
          /\ exec_error' = err
          /\ IF Absorbed(err)
             THEN /\ results' = NoResults      \* results = None
                  /\ pc' = "answer"
                  /\ raised' = raised
             ELSE /\ results' = results
                  /\ pc' = "crashed"
                  /\ raised' = "execution"
    /\ executions' = executions + 1
    /\ executed' = final_query
    /\ stages' = Append(stages, "execute")
    /\ UNCHANGED <<evVars, result_rows, pp_calls, pp_arg, repeat_round, query_checked, checked_query, repair_req, ixVars,
                   nreq, question, cache, schema_as_str, prune_failed, max_retries,
                   query, initial_query, i, explains, repairs, explain_failed,
                   last_error, last_repair, report, final_query, response,
                   ppVars, exVars>>

\* forward, after run_query returned
Answer ==
    /\ pc = "answer"
    /\ IF results.none
       THEN response' = EmptyResponse
       ELSE \E a \in AnswerTexts :
               response' = [returned |-> TRUE,
                            keys |-> {"question", "query", "answer"},
                            query |-> final_query, answer |-> a]
    /\ pc' = "idle"
    /\ UNCHANGED <<evVars, result_rows, pp_calls, pp_arg, repeat_round, stages, executions, executed, query_checked, checked_query, repair_req, ixVars,
                   nreq, question, cache, schema_as_str, prune_failed, max_retries,
                   query, initial_query, i, explains, repairs, explain_failed,
                   last_error, last_repair, report, final_query, exec_error,
                   results, raised, ppVars, exVars>>

LoopStep == ExplainOk \/ ExplainRaises \/ RepairOk \/ RepairRaises \/ Exhausted

Next ==
    \/ Forward
    \/ CacheHit
    \/ Retrieve
    \/ PruneOk
    \/ PruneRaises
    \/ GenerateOk
    \/ GenerateRaises
    \/ ExplainOk
    \/ ExplainRaises
    \/ RepairOk
    \/ RepairRaises
    \/ Exhausted
    \/ ExecuteOk
    \/ ExecuteRaises
    \/ Answer

Spec == Init /\ [][Next]_vars

\* The calls of the loop return or raise: a step of the loop is taken.
FairSpec == Spec /\ WF_vars(LoopStep)

\* ------------------------- the post-processor applied once and then again
PPInputs == SmallQueries \cup SampleQueries

PPInit ==
    /\ ppPc = "input"
    /\ ppIn \in PPInputs
    /\ ppOut1 = <<>>
    /\ ppOut2 = <<>>
    /\ RqIdle
    /\ max_retries = 0
    /\ k = DefaultK
    /\ ncorpus = MaxCorpus
    /\ scores = <<>>
    /\ retrieved = <<>>
    /\ rPc = "off"
    /\ IxInit
    /\ EvIdle

PPOnce ==
    /\ ppPc = "input"
    /\ ppOut1' = PostProcessQuery(ppIn)
    /\ ppPc' = "once"
    /\ UNCHANGED <<evVars, ppIn, ppOut2, exVars, rqVars, ixVars>>

PPTwice ==
    /\ ppPc = "once"
    /\ ppOut2' = PostProcessQuery(ppOut1)
    /\ ppPc' = "twice"
    /\ UNCHANGED <<evVars, ppIn, ppOut1, exVars, rqVars, ixVars>>

PPNext == PPOnce \/ PPTwice

SpecPP == PPInit /\ [][PPNext]_vars

\* ------------------------------------- evaluate_system on any small dataset
EvInit ==
    /\ PPIdle
    /\ RqIdle
    /\ max_retries = 0
    /\ k = DefaultK
    /\ ncorpus = MaxCorpus
    /\ scores = <<>>
    /\ retrieved = <<>>
    /\ rPc = "off"
    /\ IxInit
    /\ evPc = "loop"
    /\ dataset_len \in 0..MaxItems
    /\ items_done = 0
    /\ syntactic_correct = 0
    /\ functional_correct = 0
    /\ prev_syntactic = 0
    /\ prev_functional = 0
    /\ item_outcome = "none"
    /\ generated_rows = <<>>
    /\ gold_result = <<>>
    /\ metrics = NoMetrics

\* for item in dataset: the next item, with its gold result
EvalItem(gold) ==
    /\ evPc = "loop"
    /\ items_done < dataset_len
    /\ items_done' = items_done + 1
    /\ gold_result' = gold
    /\ prev_syntactic' = syntactic_correct
    /\ prev_functional' = functional_correct
    /\ UNCHANGED <<evPc, dataset_len, metrics, ppVars, exVars, rqVars, ixVars>>

\* get_cypher_query or _validate_and_repair_query raises: except, continue
EvalGenerationRaises ==
    /\ \E gold \in GoldResults : EvalItem(gold)
    /\ item_outcome' = "generation_raised"
    /\ generated_rows' = <<>>
    /\ UNCHANGED <<syntactic_correct, functional_correct>>

\* if not final_query: continue
EvalNoQuery ==
    /\ \E gold \in GoldResults : EvalItem(gold)
    /\ item_outcome' = "no_query"
    /\ generated_rows' = <<>>
    /\ UNCHANGED <<syntactic_correct, functional_correct>>

\* db_manager.conn.execute(final_query) raises: except, continue
EvalExecuteRaises ==
    /\ \E gold \in GoldResults : EvalItem(gold)
    /\ item_outcome' = "execute_raised"
    /\ generated_rows' = <<>>
    /\ UNCHANGED <<syntactic_correct, functional_correct>>

\* the query runs and the results are compared
EvalCompared ==
    /\ \E gold \in GoldResults : \E rows \in EvalRowSets :
          /\ EvalItem(gold)
          /\ ~SetRaises(GeneratedResult(rows))
          /\ generated_rows' = rows
          /\ functional_correct' =
                 IF FunctionalMatch(GeneratedResult(rows), gold)
                 THEN functional_correct + 1 ELSE functional_correct
    /\ item_outcome' = "compared"
    /\ syntactic_correct' = syntactic_correct + 1

\* the query runs; set(generated_result) raises: except, continue
EvalCompareRaises ==
    /\ \E gold \in GoldResults : \E rows \in EvalRowSets :
          /\ EvalItem(gold)
          /\ SetRaises(GeneratedResult(rows))
          /\ generated_rows' = rows
    /\ item_outcome' = "compare_raised"
    /\ syntactic_correct' = syntactic_correct + 1
    /\ UNCHANGED functional_correct

\* after the loop: total = len(dataset); return the accuracies
EvalReturn ==
    /\ evPc = "loop"
    /\ items_done = dataset_len
    /\ metrics' = [syntactic_accuracy |-> Accuracy(syntactic_correct, dataset_len),
                   functional_accuracy |-> Accuracy(functional_correct, dataset_len)]
    /\ evPc' = "returned"
    /\ UNCHANGED <<dataset_len, items_done, syntactic_correct, functional_correct,
                   prev_syntactic, prev_functional, item_outcome, generated_rows,
                   gold_result, ppVars, exVars, rqVars, ixVars>>

EvalStep ==
    \/ EvalGenerationRaises
    \/ EvalNoQuery
    \/ EvalExecuteRaises
    \/ EvalCompared
    \/ EvalCompareRaises

EvNext == EvalStep \/ EvalReturn

SpecEval == EvInit /\ [][EvNext]_vars

\* ------------------------------------------ one retrieval, any corpus and k
RInit ==
    /\ PPIdle
    /\ RqIdle
    /\ max_retries = 0
    /\ k \in 1..MaxK
    /\ ncorpus \in 1..MaxCorpus
    /\ scores = <<>>
    /\ retrieved = <<>>
    /\ rPc = "encode"
    /\ IxInit
    /\ EvIdle

\* question_embedding = self.retriever_model.encode(question, ...)
REncode ==
    /\ rPc = "encode"
    /\ scores' \in ScoreFns(ncorpus)
    /\ rPc' = "search"
    /\ question_encodes' = EncodeCalls(question_encodes)
    /\ UNCHANGED <<evVars, k, ncorpus, retrieved, ppVars, rqVars, trainset_embeddings, corpus_encodes>>

\* hits = util.semantic_search(...); return the examples of the hits
RSearch ==
    /\ rPc = "search"
    /\ retrieved' \in GetRetrievedExamples(scores, ncorpus, k)
    /\ rPc' = "returned"
    /\ UNCHANGED <<evVars, k, ncorpus, scores, ppVars, rqVars, ixVars>>

RNext == REncode \/ RSearch

SpecRetrieve == RInit /\ [][RNext]_vars

\* ================================================================ claims

InLoop == pc \in {"loop", "repair"}

\* C1: for every max_retries >= 0 and whatever EXPLAIN does, the
\* validate/repair loop is left again, and it issues at most max_retries
\* repair requests (and EXPLAIN checks).
C1_LoopTerminatesBounded ==
    /\ [](repairs <= max_retries /\ explains <= max_retries)
    /\ (InLoop ~> ~InLoop)

C1_Witness ==
    /\ report = "exhausted"
    /\ max_retries >= 2
    /\ explains = max_retries
    /\ repairs = max_retries

\* _validate_and_repair_query has just returned to run_query
LoopReturned == pc = "execute"

\* the loop returned and no EXPLAIN of the call raised
ReturnedNeverFailed == LoopReturned /\ ~explain_failed

\* C2 (as stated): if EXPLAIN never raises, the loop returns the candidate
\* unchanged and makes no repair request.
C2_ReturnsUnchanged ==
    ReturnedNeverFailed => (final_query = initial_query /\ repairs = 0)

\* C2 (amended): if EXPLAIN never raises, the loop returns the post-processed
\* candidate and makes no repair request.
C2_ReturnsPostProcessed ==
    ReturnedNeverFailed
        => (final_query = PostProcessQuery(initial_query) /\ repairs = 0)

C2_Witness ==
    /\ LoopReturned
    /\ report = "valid"
    /\ ~explain_failed
    /\ explains = 1
    /\ initial_query = QRaw
    /\ final_query # initial_query

\* the loop returned and every EXPLAIN of the call raised (each was followed
\* by a repair request that returned)
ReturnedAllFailed == LoopReturned /\ explains = repairs

\* C3 (as stated): if EXPLAIN raises on every attempt, the loop returns the
\* last candidate a repair request generated, reports exhaustion, and no
\* error leaves it.
C3_ReturnsLastRepair ==
    (ReturnedAllFailed /\ repairs > 0)
        => /\ report = "exhausted"
           /\ final_query = last_repair
           /\ raised = "none"

\* C3 (amended): ... the loop returns the post-processed last candidate (the
\* answer of the last repair request; the initial candidate when there was
\* no round), reports exhaustion, and no error leaves it.
C3_ReturnsPostProcessedLastRepair ==
    ReturnedAllFailed
        => /\ report = "exhausted"
           /\ repairs = max_retries
           /\ final_query = PostProcessQuery(IF repairs = 0 THEN initial_query
                                                            ELSE last_repair)
           /\ raised = "none"

C3_Witness ==
    /\ LoopReturned
    /\ report = "exhausted"
    /\ explain_failed
    /\ repairs = max_retries
    /\ repairs >= 2
    /\ last_repair = QRaw
    /\ initial_query # QRaw
    /\ final_query = PostProcessQuery(QRaw)

\* C4: the post-processor is idempotent.
C4_Idempotent == ppPc = "twice" => ppOut2 = ppOut1

\* position p of q lies outside every quoted literal
TopLevel(q, p) == Cardinality({j \in 1..(p - 1) : q[j] = "Q"}) % 2 = 0

\* a comparison of a name property with a literal, by CONTAINS or by =
ComparisonAt(q, p) ==
    LET kw == SkipSpace(q, p + 1)
        open == SkipSpace(q, kw + 1)
        close == NextQuote(q, open + 1)
        ok == /\ q[p] = "N"
              /\ kw <= Len(q)
              /\ q[kw] \in {"C", "c", "E"}
              /\ open <= Len(q)
              /\ q[open] = "Q"
              /\ close # 0
    IN  [ok |-> ok, kw |-> kw, open |-> open, close |-> close]

ContainsSeg(out, seg) ==
    \E a \in 1..(Len(out) - Len(seg) + 1) : SubSeq(out, a, a + Len(seg) - 1) = seg

OptSpace == {<<>>, <<"S">>}
SameOperator(op) == IF op = "E" THEN {"E"} ELSE {"C", "c"}

\* lower(<var>.name) <op> '<lowercased literal>' stands in out
LoweredIn(out, op, lit) ==
    \E w1 \in OptSpace, w2 \in OptSpace, o \in SameOperator(op) :
        ContainsSeg(out, <<"L", "N", "R">> \o w1 \o <<o>> \o w2 \o <<"Q">>
                             \o LowerSeq(lit) \o <<"Q">>)

\* C5: every = and every CONTAINS comparison of a name property is rewritten
\* to compare lower(<var>.name) with the lowercased literal.
C5_ComparisonsLowered ==
    ppPc = "once" =>
        \A p \in 1..Len(ppIn) :
            LET m == ComparisonAt(ppIn, p) IN
            (TopLevel(ppIn, p) /\ m.ok)
                => LoweredIn(ppOut1, ppIn[m.kw],
                             SubSeq(ppIn, m.open + 1, m.close - 1))

\* the rewrite, applied to the comparisons outside quoted literals only
RECURSIVE SubTopLevel(_, _, _)
SubTopLevel(q, p, quoted) ==
    IF p > Len(q) THEN <<>>
    ELSE LET m == MatchAt(q, p) IN
         IF ~quoted /\ m.ok
         THEN Replacement(SubSeq(q, p, m.kw), SubSeq(q, m.open + 1, m.close - 1))
                  \o SubTopLevel(q, m.close + 1, FALSE)
         ELSE <<q[p]>> \o SubTopLevel(q, p + 1, IF q[p] = "Q" THEN ~quoted ELSE quoted)

\* C6: the post-processor changes nothing but name-property comparisons, and
\* lower(<var>.name) CONTAINS '<lowercase literal>' is returned unchanged.
C6_OnlyComparisonsChange ==
    ppPc = "once" =>
        /\ ppOut1 = SubTopLevel(ppIn, 1, FALSE)
        /\ ppIn = QNorm => ppOut1 = ppIn

\* C7: when executing the final query raises, forward does not throw and its
\* response carries an answer that states insufficient information (stated
\* for the errors run_query absorbs, once forward has ended).
C7_ExecFailureAnswered ==
    (Absorbed(exec_error) /\ pc \in {"idle", "crashed"})
        => /\ raised = "none"
           /\ response.returned
           /\ "answer" \in response.keys
           /\ response.answer = "insufficient"

\* C8: every error conn.execute raises on the final query is absorbed:
\* run_query returns (final_query, None) and raises nothing.
C8_ExecErrorAbsorbed ==
    exec_error # "none" => (raised = "none" /\ pc # "crashed" /\ results.none)

\* C9: when the prune step fails the request goes on: the query is generated
\* with the unpruned input schema.
C9_PruneFailureFallsBack ==
    prune_failed => (raised = "none" /\ pc # "crashed" /\ schema_as_str = "unpruned")

\* C10: with a corpus of at least k exemplars a retrieval returns exactly k
\* pairwise distinct exemplars of the corpus, by non-increasing similarity,
\* and no exemplar left out is more similar than one returned.
C10_TopK ==
    (rPc = "returned" /\ ncorpus >= k) =>
        /\ Len(retrieved) = k
        /\ \A a \in 1..Len(retrieved) : retrieved[a] \in 1..ncorpus
        /\ \A a, b \in 1..Len(retrieved) : a # b => retrieved[a] # retrieved[b]
        /\ \A a, b \in 1..Len(retrieved) :
               a < b => scores[retrieved[a]] >= scores[retrieved[b]]
        /\ \A j \in 1..ncorpus :
               (\A a \in 1..Len(retrieved) : retrieved[a] # j)
                   => \A a \in 1..Len(retrieved) : scores[j] <= scores[retrieved[a]]

C10_Witness ==
    /\ rPc = "returned"
    /\ k >= 2
    /\ ncorpus > k
    /\ Len(retrieved) = k
    /\ \E a, b \in 1..ncorpus : scores[a] < scores[b]
    /\ \E j \in 1..ncorpus :
          /\ \A a \in 1..Len(retrieved) : retrieved[a] # j
          /\ scores[j] < scores[retrieved[k]]

\* C11: with fewer than k exemplars in the corpus a retrieval fails (it raises
\* InsufficientExemplars) instead of returning fewer than k exemplars.
C11_SmallCorpusFails == ncorpus < k => rPc # "returned"

IsPrefix(s, t) == Len(s) <= Len(t) /\ SubSeq(t, 1, Len(s)) = s
FullOrder ==
    <<"retrieve", "prune", "generate", "validate", "post_process", "execute">>
\* a request whose query the lru_cache holds starts at the loop
CachedOrder == <<"validate", "post_process", "execute">>

C13_ExhaustedStillExecutes ==
    report = "exhausted" =>
        \/ /\ pc = "execute"
           /\ executions = 0
           /\ raised = "none"
           /\ ENABLED (ExecuteOk \/ ExecuteRaises)
        \/ /\ pc \in {"answer", "idle", "crashed"}
           /\ executions = 1
           /\ executed = final_query
           /\ final_query = PostProcessQuery(query)

C13_Witness ==
    /\ report = "exhausted"
    /\ explain_failed
    /\ max_retries >= 1
    /\ pc = "answer"
    /\ executions = 1

\* C14: a failure of the generator, in the first generation or in a repair
\* request, leaves run_query as an exception, and no query is executed for
\* the request.
C14_GeneratorFailureFailsRequest ==
    raised = "generation" =>
        /\ pc = "crashed"
        /\ executions = 0
        /\ final_query = NoQuery
        /\ ~response.returned

C14_Witness ==
    /\ raised = "generation"
    /\ pc = "crashed"
    /\ repairs >= 2
    /\ repair_req # NoRequest

\* C15: every candidate a repair request produced has gone through
\* EXPLAIN when the loop returns it.
C15_EveryRepairChecked ==
    (LoopReturned /\ repairs > 0 /\ query = last_repair) => query_checked

\* C15 (amended): a candidate is replaced by a repair only after it failed
\* EXPLAIN, a candidate returned as valid has passed EXPLAIN, and the
\* candidate of the repair of the last round (round max_retries) is returned
\* without having gone through EXPLAIN.
C15_RepairCheckedUnlessLast ==
    /\ pc = "repair" => (query_checked /\ checked_query = query)
    /\ (LoopReturned /\ report = "valid")
           => (query_checked /\ checked_query = query)
    /\ (LoopReturned /\ report = "exhausted" /\ repairs > 0)
           => (~query_checked /\ repairs = max_retries /\ query = last_repair)

C15_Witness ==
    /\ LoopReturned
    /\ report = "valid"
    /\ repairs >= 1
    /\ query = last_repair
    /\ query # initial_query
    /\ query_checked

\* C16: a repair request holds the text of the candidate that just failed
\* EXPLAIN and the error of that check, an empty schema and not the original
\* question; its answer becomes the candidate; there is one repair request
\* per failed check, sent before the next check.
C16_RepairRequestContent ==
    /\ (repair_req # NoRequest /\ repairs = explains)
           => /\ repair_req.failed_query = checked_query
              /\ repair_req.error = last_error
              /\ repair_req.input_schema = ""
              /\ ~repair_req.original_question
    /\ (pc = "loop" /\ repairs > 0) => query = last_repair
    /\ repairs <= explains
    /\ explains <= repairs + 1
    /\ pc = "repair" => explains = repairs + 1

C16_Witness ==
    /\ pc = "loop"
    /\ repairs >= 2
    /\ repair_req.failed_query # initial_query
    /\ repair_req.error = "e2"
    /\ query # repair_req.failed_query

\* the request executed a query the loop returned as valid
ExecutedValid == executions > 0 /\ report = "valid"

\* C17: the text run_query executes is the text on which EXPLAIN
\* passed.
C17_ExecutesCheckedText == ExecutedValid => executed = checked_query

\* C18: the loop keeps no memory of failures: also after a repair answered
\* with the candidate that had just failed, or EXPLAIN raised the same error
\* again, it returns only on a passed EXPLAIN or after max_retries checks and
\* max_retries repair requests.
C18_NoEarlyStop ==
    LoopReturned =>
        \/ /\ report = "valid"
           /\ query_checked
           /\ explains = repairs + 1
        \/ /\ report = "exhausted"
           /\ i = max_retries
           /\ explains = max_retries
           /\ repairs = max_retries

C18_Witness ==
    /\ LoopReturned
    /\ report = "exhausted"
    /\ repeat_round >= 1
    /\ repeat_round < max_retries
    /\ repairs = max_retries

\* C19: a candidate generated in one request is never used in a later
\* request: the candidate a request works on was generated in that request.
C19_NoReuseAcrossRequests ==
    initial_query # NoQuery => (Len(stages) >= 3 /\ stages[3] = "generate")

\* one step of a retrieval: the question was embedded
RetrievalStep ==
    \/ stages' = Append(stages, "retrieve")
    \/ rPc = "encode" /\ rPc' = "search"

\* C20: every exemplar question is embedded once, at construction; afterwards
\* the corpus and its embeddings never change, and a retrieval, and nothing
\* else, computes one embedding, of the question.
C20_EmbeddingsFixed ==
    /\ corpus_encodes = ncorpus
    /\ trainset_embeddings = EncodeCorpus(ncorpus)
    /\ [][/\ ncorpus' = ncorpus
          /\ trainset_embeddings' = trainset_embeddings
          /\ corpus_encodes' = corpus_encodes
          /\ question_encodes' = IF RetrievalStep THEN question_encodes + 1
                                                  ELSE question_encodes]_vars

C20_Witness ==
    /\ nreq >= 2
    /\ question_encodes >= 2
    /\ pc = "idle"
    /\ trainset_embeddings = EncodeCorpus(ncorpus)

\* the number of values in the rows before row r
RECURSIVE RowOffset(_, _)
RowOffset(rows, r) ==
    IF r <= 1 THEN 0 ELSE RowOffset(rows, r - 1) + Len(rows[r - 1])

\* conn.execute(final_query) returned rows
ExecutionSucceeded == executions > 0 /\ exec_error = "none"

\* C21: after a successful execution the results of run_query are the values
\* of the rows in one sequence, row after row and in column order, as long as
\* the rows together; zero rows give the empty sequence, not None.
C21_ResultsFlattened ==
    ExecutionSucceeded =>
        /\ ~results.none
        /\ Len(results.items) = RowOffset(result_rows, Len(result_rows) + 1)
        /\ \A r \in 1..Len(result_rows) : \A c \in 1..Len(result_rows[r]) :
              results.items[RowOffset(result_rows, r) + c] = result_rows[r][c]
        /\ result_rows = <<>> => results.items = <<>>

C21_Witness ==
    /\ ExecutionSucceeded
    /\ pc = "answer"
    /\ Len(result_rows) = 2
    /\ Len(result_rows[1]) = 2
    /\ results.items = <<1, 2, 3>>

\* C23: _validate_and_repair_query applies the post-processor once on each
\* of its return paths, to the candidate it returns, and never before: while
\* candidates are checked and repaired no post-processing has happened.
C23_PostProcessedOnceOnReturn ==
    /\ report = "none" => (pp_calls = 0 /\ pp_arg = NoQuery)
    /\ report # "none" => /\ pp_calls = 1
                          /\ pp_arg = query
                          /\ final_query = PostProcessQuery(pp_arg)
    /\ InLoop => report = "none"

C23_Witness ==
    /\ LoopReturned
    /\ report = "exhausted"
    /\ repairs >= 1
    /\ pp_calls = 1
    /\ pp_arg = last_repair
    /\ final_query # pp_arg

\* C24: with max_retries = 0 the loop makes no EXPLAIN and no repair request;
\* it returns the post-processed initial candidate and prints that the query
\* could not be repaired.
C24_ZeroRetries ==
    (max_retries = 0 /\ LoopReturned) =>
        /\ explains = 0
        /\ repairs = 0
        /\ ~query_checked
        /\ repair_req = NoRequest
        /\ report = "exhausted"
        /\ final_query = PostProcessQuery(initial_query)

C24_Witness ==
    /\ max_retries = 0
    /\ LoopReturned
    /\ initial_query = QRaw
    /\ final_query # initial_query
    /\ report = "exhausted"

\* the generated query of the last item ran
ItemExecuted == item_outcome \in {"compared", "compare_raised"}
\* the last item ended in the except branch
ItemRaised ==
    item_outcome \in {"generation_raised", "execute_raised", "compare_raised"}
\* every value of every row
AllValues(rows) == UNION {SetOf(rows[r]) : r \in 1..Len(rows)}
\* the values of the first column
FirstValues(rows) == {rows[r][1] : r \in 1..Len(rows)}
CountersOrdered ==
    /\ functional_correct <= syntactic_correct
    /\ syntactic_correct <= items_done

\* C22: evaluate_system counts an item as functionally correct exactly when
\* the set of the values its generated query produced equals the set of the
\* gold values, whatever the row order; functional_correct <=
\* syntactic_correct <= items processed; an item that raised leaves both
\* counters as they were.
C22_SetEquality ==
    /\ CountersOrdered
    /\ items_done > 0 =>
          /\ functional_correct = prev_functional + 1
                 <=> /\ ItemExecuted
                     /\ AllValues(generated_rows) = SetOf(gold_result)
          /\ ItemRaised => /\ syntactic_correct = prev_syntactic
                           /\ functional_correct = prev_functional

\* C22 (amended): an item is counted as functionally correct exactly when its
\* query ran and the set of the first-column values of its rows equals the
\* set of the gold values, whatever the row order; functional_correct <=
\* syntactic_correct <= items processed; an item whose generation or
\* execution raised leaves both counters as they were, an item whose
\* comparison raised (a value that is not hashable) has been counted as
\* syntactically correct only; the loop goes on with the next item.
C22_FirstColumnSetEquality ==
    /\ CountersOrdered
    /\ items_done > 0 =>
          /\ functional_correct = prev_functional + 1
                 <=> /\ ItemExecuted
                     /\ \A v \in FirstValues(generated_rows) : Hashable(v)
                     /\ FirstValues(generated_rows) = SetOf(gold_result)
          /\ functional_correct \in {prev_functional, prev_functional + 1}
          /\ syntactic_correct = prev_syntactic + 1 <=> ItemExecuted
          /\ syntactic_correct \in {prev_syntactic, prev_syntactic + 1}
          /\ item_outcome = "compare_raised"
                 => functional_correct = prev_functional
    /\ (evPc = "loop" /\ items_done < dataset_len) => ENABLED EvalStep

C22_Witness ==
    /\ items_done = 2
    /\ item_outcome = "compared"
    /\ generated_rows = <<<<"b">>, <<"a">>>>
    /\ gold_result = <<"a", "b">>
    /\ functional_correct = prev_functional + 1
    /\ functional_correct < syntactic_correct

=============================================================================
